---- MODULE Spec2Model ----
(***************************************************************************)
(* Smart Bookmark: the client page (app/page.js) and the metadata route    *)
(* handlers, as state machines.                                            *)
(*                                                                         *)
(* Strings the code inspects character by character (URLs, titles) are     *)
(* sequences of one-character strings, so that trimming, prefix stripping  *)
(* and splitting are computed and not assumed.                             *)
(***************************************************************************)
EXTENDS Integers, Sequences, FiniteSets, TLC

(***************************************************************************)
(* Bounds of the model.                                                    *)
(***************************************************************************)
MaxId == 3          \* bookmark ids are 1..MaxId
MaxChannel == 1     \* notifications in flight when the channel delivers any payload
MaxBacklog == 1     \* notifications the store has emitted and not delivered
MaxInFlight == 1    \* store calls in flight at once
MaxLookups == 2     \* /api/metadata requests in flight at once
MaxOutbound == 2    \* /api/metadata requests sent for one url
MaxRows == 2        \* rows the store ever creates
MaxSaves == 3       \* calls of handleSave
MaxElapsed == 1700  \* milliseconds the clock runs after page load
Now0 == 5000        \* Date.now() at page load, any value of 1200 or more

Ids == 1..MaxId

\* JavaScript's undefined / null, and the {} record Supabase sends for the
\* side of a change that does not exist (old of INSERT, new of DELETE).
None == "none"
NoId == 0
EmptyRecord == [id |-> NoId]

(***************************************************************************)
(* Strings                                                                 *)
(***************************************************************************)
Str_http_a == <<"h", "t", "t", "p", ":", "/", "/", "a">>
Str_https_www_a_p ==
  <<"h", "t", "t", "p", "s", ":", "/", "/", "w", "w", "w", ".", "a", "/", "p">>
Str_a == <<"a">>
Str_Ab == <<"A", "b">>
Str_M == <<"M">>
Str_space == <<" ">>
Str_empty == <<>>
Str_https_www == <<"h", "t", "t", "p", "s", ":", "/", "/", "w", "w", "w", ".">>
Str_sp_http_a == <<" ", "h", "t", "t", "p", ":", "/", "/", "a">>
Str_http_only == <<"h", "t", "t", "p", ":", "/", "/">>
Str_O == <<"O">>
Str_T == <<"T">>
Str_D == <<"D">>
Str_Untitled == <<"U", "n", "t", "i", "t", "l", "e", "d">>

\* the one character U+00A0, no-break space
NBSP == "U+00A0"

\* the space new URL() strips and refuses in a host
IsSpace(c) == c = " "

\* the white space String.prototype.trim strips
IsWhiteSpace(c) == c \in {" ", NBSP}

\* String.prototype.trim
RECURSIVE TrimStart(_)
TrimStart(s) ==
  IF s # <<>> /\ IsWhiteSpace(Head(s)) THEN TrimStart(Tail(s)) ELSE s

RECURSIVE TrimEnd(_)
TrimEnd(s) ==
  IF s # <<>> /\ IsWhiteSpace(s[Len(s)])
    THEN TrimEnd(SubSeq(s, 1, Len(s) - 1)) ELSE s

Trim(s) == TrimEnd(TrimStart(s))

\* the leading and trailing spaces new URL() drops from its input
RECURSIVE StripSpaces(_)
StripSpaces(s) ==
  IF s # <<>> /\ IsSpace(Head(s)) THEN StripSpaces(Tail(s))
  ELSE IF s # <<>> /\ IsSpace(s[Len(s)])
    THEN StripSpaces(SubSeq(s, 1, Len(s) - 1))
  ELSE s

\* s.startsWith(prefix)
StartsWith(s, prefix) ==
  Len(s) >= Len(prefix) /\ SubSeq(s, 1, Len(prefix)) = prefix

\* index of the first occurrence of character c in s, 0 when there is none
IndexOf(s, c) ==
  IF \E i \in 1..Len(s) : s[i] = c
    THEN CHOOSE i \in 1..Len(s) : s[i] = c /\ \A j \in 1..(i - 1) : s[j] # c
    ELSE 0

AsciiAlpha == {"a", "b", "c", "e", "h", "m", "p", "s", "t", "w", "A", "M"}
SpecialSchemes == {<<"h", "t", "t", "p">>, <<"h", "t", "t", "p", "s">>}

RECURSIVE SkipSlashes(_)
SkipSlashes(s) ==
  IF s # <<>> /\ Head(s) = "/" THEN SkipSlashes(Tail(s)) ELSE s

\* new URL(value) without a base: leading and trailing spaces are dropped, a
\* scheme of letters followed by ":" is required, and an http(s) URL needs a
\* non-empty host without spaces after the slashes
UrlParses(value) ==
  LET s == StripSpaces(value)
      colon == IndexOf(s, ":")
      scheme == SubSeq(s, 1, colon - 1)
      rest == SkipSlashes(SubSeq(s, colon + 1, Len(s)))
      slash == IndexOf(rest, "/")
      host == IF slash = 0 THEN rest ELSE SubSeq(rest, 1, slash - 1)
  IN /\ colon > 1
     /\ \A i \in 1..(colon - 1) : s[i] \in AsciiAlpha
     /\ scheme \in SpecialSchemes =>
          host # <<>> /\ \A i \in 1..Len(host) : ~IsSpace(host[i])

\* page.js:9-16
isValidUrl(value) == UrlParses(value)

VARIABLES
  \* page.js component state
  user,             \* page.js:83   useState(null)
  bookmarks,        \* page.js:84   useState([]) - the local list
  title,            \* page.js:89
  url,              \* page.js:90
  editingId,        \* page.js:91   NoId stands for null
  showForm,         \* page.js:93
  showWebSearch,    \* page.js:94
  webResults,       \* page.js:87
  isSearching,      \* page.js:88
  fetchingMetadata, \* page.js:97
  \* page.js module state
  metadataCache,    \* page.js:19   new Map()
  lastSaveTime,     \* page.js:76
  \* positions of the asynchronous functions
  initPc,           \* page.js:111  where init() stands
  subscribed,       \* page.js:161  the realtime channel is open
  lookups,          \* page.js:171  handleUrlChange calls awaiting /api/metadata
  requests,         \* page.js:203,213,259,285  store calls and their outcome
  \* environment
  now,              \* Date.now()
  store,            \* the owner's rows in the bookmarks table, oldest first
  nextId,           \* the id the store gives to the next inserted row
  queryResult,      \* the answer to init()'s select, not yet applied
  channel,          \* page.js:134  postgres_changes payloads not yet handled
  \* observations
  lastEvent,        \* kind of the last notification handled, and whether the
                    \* list held its id
  lastToast,        \* the last toast shown
  outbound,         \* number of requests sent to /api/metadata, per url
  saves,            \* number of handleSave calls so far
  lastSubmit,       \* the last handleSave call: mode, outcome, and how long
                    \* before it the guard last let a create, and a save, pass
  lastCreateAt,     \* when the guard last let a create pass, 0 if never
  lastAcceptAt,     \* when the guard last let a save pass, 0 if never
  calls,            \* per url, the latest fetchPageMetadata call: how the call
                    \* before it stood when this one began, and its own result
  lastAnswer,       \* the last answer /api/metadata gave to a lookup
  \* the list view
  search,           \* page.js:85   the raw search input
  debouncedSearch,  \* page.js:100  useDebounce(search, 300)
  page,             \* page.js:96
  debounceTimers,   \* page.js:46   pending setTimeout handlers of useDebounce
  lastTyped,        \* when the raw search input last changed, 0 if never
  \* the session
  auth,             \* what supabase.auth answers to getUserSafe
  queriedFor,       \* page.js:123  the user_id init() selected bookmarks for
  channelFor,       \* page.js:141  the user_id the realtime channel filters on
  loaded,           \* page.js:125  how the query ended whose data init() set
  \* the search route handler (api/search/route.js)
  searchEnv,        \* which provider keys process.env holds
  query,            \* the q parameter of the current request
  searchPc,         \* where GET stands: idle, serp, google, done
  contacted,        \* the providers GET has called for the current request
  searchResponse,   \* what GET returned
  \* the metadata route handlers (part_001, api/Metadata/route.js)
  route,            \* the route file that serves the current request
  request,          \* the url query parameter of the current request
  resolverPc,       \* where GET stands: idle, fetching, done
  fetches,          \* outbound fetches GET has started for the current request
  target,           \* what the target page did
  html,             \* the body the target sent, when it answered OK
  response          \* what GET returned

pageVars == <<user, bookmarks, title, url, editingId, showForm, showWebSearch,
              webResults, isSearching, fetchingMetadata>>
moduleVars == <<metadataCache, lastSaveTime>>
asyncVars == <<initPc, subscribed, lookups, requests>>
envVars == <<now, store, nextId, queryResult, channel>>
saveObs == <<saves, lastSubmit, lastCreateAt, lastAcceptAt>>
lookupObs == <<outbound, calls, lastAnswer>>
obsVars == <<lastEvent, lastToast, lookupObs, saveObs>>
resolverVars == <<route, request, resolverPc, fetches, target, html, response>>
viewVars == <<search, debouncedSearch, page, debounceTimers, lastTyped>>
authVars == <<auth, queriedFor, channelFor, loaded>>
searchVars == <<searchEnv, query, searchPc, contacted, searchResponse>>
restVars == <<viewVars, authVars, searchVars>>
formVars == <<title, url, editingId, showForm>>

vars == <<pageVars, moduleVars, asyncVars, envVars, obsVars, resolverVars,
          restVars>>

(***************************************************************************)
(* Values                                                                  *)
(***************************************************************************)
Owner == "u1"

NoEvent == [eventType |-> "none", known |-> FALSE]
NoQueryResult == [ok |-> FALSE, data |-> <<>>]
NoSubmit == [mode |-> "none", outcome |-> "none",
             createGap |-> "none", saveGap |-> "none"]

\* the route files: part_001 is app/api/metadata/route.js
RouteFallback == "app/api/metadata/route.js"
RouteCheerio == "app/api/Metadata/route.js"
Routes == {RouteFallback, RouteCheerio}

\* searchParams.get('url') of a request without the parameter
NoRequest == [given |-> FALSE, url |-> Str_empty]

\* a meta tag or title element the page does not have, and one it has
NoTag == [found |-> FALSE, content |-> Str_empty]
Tag(content) == [found |-> TRUE, content |-> content]
NoHtml == [og |-> NoTag, tw |-> NoTag, title |-> NoTag]

\* NextResponse.json(body, {status}): the status, the body's title (empty
\* when the body has none) and whether the body carries a warning
Response(status, t, warning) ==
  [status |-> status, title |-> t, warning |-> warning]
NoResponse == [status |-> 0, title |-> Str_empty, warning |-> FALSE]

\* no lookup has been answered
NoAnswer == [url |-> Str_empty, ok |-> FALSE, title |-> Str_empty]

\* page.js:77 and page.js:100
PAGE_SIZE == 6
DebounceDelay == 300

\* the list view as useState and useDebounce construct it; mounted says
\* whether the timeout of the first render is still pending
FreshView(mounted) ==
  /\ search = Str_empty
  /\ debouncedSearch = Str_empty
  /\ page = 1
  /\ debounceTimers =
       IF mounted THEN {} ELSE {[value |-> Str_empty, due |-> Now0 + DebounceDelay]}
  /\ lastTyped = 0

\* what supabase.auth.getUser() and supabase.auth.refreshSession() do for
\* this browser: "user" yields the user id, "none" yields no user, "error"
\* is refreshSession's refreshError, "throws" is an exception
UserIds == {"u1", "u2"}
AuthStates ==
  [getUser : {"user", "none", "throws"},
   refresh : {"user", "none", "error", "throws"},
   id : UserIds]
SignedIn(u) == [getUser |-> "user", refresh |-> "none", id |-> u]

\* api/search/route.js:78-94
MockResults == <<1, 2, 3>>

\* NextResponse.json of the search route: status, results, warning
SearchResponse(status, results, warning) ==
  [status |-> status, results |-> results, warning |-> warning]
NoSearchResponse == SearchResponse(0, <<>>, FALSE)
NoQuery == [given |-> FALSE, q |-> Str_empty]

\* no request has reached the search route
SearchIdle ==
  /\ searchEnv = [serp |-> FALSE, googleKey |-> FALSE, googleId |-> FALSE]
  /\ query = NoQuery
  /\ searchPc = "idle"
  /\ contacted = {}
  /\ searchResponse = NoSearchResponse

\* no request has reached a metadata route
ResolverIdle ==
  /\ route = RouteFallback
  /\ request = NoRequest
  /\ resolverPc = "idle"
  /\ fetches = 0
  /\ target = "none"
  /\ html = NoHtml
  /\ response = NoResponse

RECURSIVE SeqsUpTo(_, _)
SeqsUpTo(S, n) ==
  IF n = 0 THEN {<<>>}
  ELSE LET shorter == SeqsUpTo(S, n - 1)
       IN shorter \cup {Append(s, x) : s \in shorter, x \in S}

RECURSIVE Reverse(_)
Reverse(s) == IF s = <<>> THEN <<>> ELSE Append(Reverse(Tail(s)), Head(s))

RemoveAt(seq, i) == SubSeq(seq, 1, i - 1) \o SubSeq(seq, i + 1, Len(seq))

\* Map.prototype.set
MapSet(map, key, value) ==
  [k \in (DOMAIN map) \cup {key} |-> IF k = key THEN value ELSE map[k]]

(***************************************************************************)
(* Realtime reconciliation, page.js:144-159                                *)
(***************************************************************************)
HasId(list, id) == \E i \in 1..Len(list) : list[i].id = id

PositionOf(list, id) == CHOOSE i \in 1..Len(list) : list[i].id = id

NoDuplicateIds(list) ==
  \A i, j \in 1..Len(list) : list[i].id = list[j].id => i = j

\* ApplyChange with an INSERT that does not look for the id first
ApplyChange_InsertAlways(prev, payload) ==
  IF payload.eventType = "INSERT"
    THEN <<payload.new>> \o prev
  ELSE IF payload.eventType = "UPDATE"
    THEN [i \in 1..Len(prev) |->
            IF prev[i].id = payload.new.id THEN payload.new ELSE prev[i]]
  ELSE IF payload.eventType = "DELETE"
    THEN SelectSeq(prev, LAMBDA b : b.id # payload.old.id)
  ELSE prev

\* ApplyChange with an UPDATE that inserts the record when the id is unknown
ApplyChange_Upsert(prev, payload) ==
  IF payload.eventType = "INSERT"
    THEN IF HasId(prev, payload.new.id) THEN prev ELSE <<payload.new>> \o prev
  ELSE IF payload.eventType = "UPDATE"
    THEN IF HasId(prev, payload.new.id)
           THEN [i \in 1..Len(prev) |->
                   IF prev[i].id = payload.new.id THEN payload.new ELSE prev[i]]
           ELSE <<payload.new>> \o prev
  ELSE IF payload.eventType = "DELETE"
    THEN SelectSeq(prev, LAMBDA b : b.id # payload.old.id)
  ELSE prev

\* ApplyChange with a DELETE that reads the id from the new record, which
\* is empty on a DELETE
ApplyChange_DeleteByNew(prev, payload) ==
  IF payload.eventType = "INSERT"
    THEN IF HasId(prev, payload.new.id) THEN prev ELSE <<payload.new>> \o prev
  ELSE IF payload.eventType = "UPDATE"
    THEN [i \in 1..Len(prev) |->
            IF prev[i].id = payload.new.id THEN payload.new ELSE prev[i]]
  ELSE IF payload.eventType = "DELETE"
    THEN SelectSeq(prev, LAMBDA b : b.id # payload.new.id)
  ELSE prev

\* ApplyChange with an INSERT that puts the new record last
ApplyChange_InsertLast(prev, payload) ==
  IF payload.eventType = "INSERT"
    THEN IF HasId(prev, payload.new.id) THEN prev ELSE prev \o <<payload.new>>
  ELSE IF payload.eventType = "UPDATE"
    THEN [i \in 1..Len(prev) |->
            IF prev[i].id = payload.new.id THEN payload.new ELSE prev[i]]
  ELSE IF payload.eventType = "DELETE"
    THEN SelectSeq(prev, LAMBDA b : b.id # payload.old.id)
  ELSE prev

\* the updater passed to setBookmarks
ApplyChange(prev, payload) ==
  IF payload.eventType = "INSERT"
    THEN IF HasId(prev, payload.new.id) THEN prev ELSE <<payload.new>> \o prev
  ELSE IF payload.eventType = "UPDATE"
    THEN [i \in 1..Len(prev) |->
            IF prev[i].id = payload.new.id THEN payload.new ELSE prev[i]]
  ELSE IF payload.eventType = "DELETE"
    THEN SelectSeq(prev, LAMBDA b : b.id # payload.old.id)
  ELSE prev

\* the id a payload is about
SubjectId(payload) ==
  IF payload.eventType = "DELETE" THEN payload.old.id ELSE payload.new.id

\* the postgres_changes callback runs for the oldest undelivered payload
OnPostgresChanges ==
  /\ channel # <<>>
  /\ bookmarks' = ApplyChange(bookmarks, Head(channel))
  /\ lastEvent' = [eventType |-> Head(channel).eventType,
                   known |-> HasId(bookmarks, SubjectId(Head(channel)))]
  /\ channel' = Tail(channel)
  /\ UNCHANGED <<user, formVars, showWebSearch, webResults, isSearching,
                 fetchingMetadata, moduleVars, asyncVars, now, store, nextId,
                 queryResult, lastToast, lookupObs, saveObs, resolverVars,
                 restVars>>

\* the step that handles the oldest notification
Handled == channel # <<>> /\ channel' = Tail(channel)

\* the store's channel delivers payload p; the handler has no say in which,
\* so replays and notifications for unknown ids are included
EmitAny(p) ==
  /\ Len(channel) < MaxChannel
  /\ channel' = Append(channel, p)
  /\ UNCHANGED <<pageVars, moduleVars, asyncVars, now, store, nextId,
                 queryResult, obsVars, resolverVars,
                 restVars>>

\* the page after a load that found the owner signed in, form closed, while
\* the store holds rows
LoadedPage(list, rows) ==
  /\ user = Owner
  /\ bookmarks = list
  /\ title = Str_empty
  /\ url = Str_empty
  /\ editingId = NoId
  /\ showForm = FALSE
  /\ showWebSearch = FALSE
  /\ webResults = {}
  /\ isSearching = FALSE
  /\ fetchingMetadata = FALSE
  /\ metadataCache = <<>>
  /\ lastSaveTime = 0
  /\ initPc = "done"
  /\ subscribed = TRUE
  /\ lookups = <<>>
  /\ requests = <<>>
  /\ now = Now0
  /\ store = rows
  /\ nextId = Len(rows) + 1
  /\ queryResult = NoQueryResult
  /\ channel = <<>>
  /\ lastEvent = NoEvent
  /\ lastToast = None
  /\ outbound = <<>>
  /\ saves = 0
  /\ lastSubmit = NoSubmit
  /\ lastCreateAt = 0
  /\ lastAcceptAt = 0
  /\ calls = <<>>
  /\ ResolverIdle
  /\ lastAnswer = NoAnswer
  /\ FreshView(TRUE)
  /\ auth = SignedIn(Owner)
  /\ queriedFor = Owner
  /\ channelFor = Owner
  /\ loaded = "ok"
  /\ SearchIdle

RowTitles == {Str_a, Str_Ab}
RowUrls == {Str_http_a}
BookmarkRows == [id : Ids, title : RowTitles, url : RowUrls]

Payloads ==
       [eventType : {"INSERT", "UPDATE"}, new : BookmarkRows, old : {EmptyRecord}]
  \cup [eventType : {"DELETE"}, new : {EmptyRecord}, old : [id : Ids]]

\* any list with distinct ids; the handler never consults the store, whose
\* rows other sessions may have changed since the load
InitRealtime ==
  \E list \in {l \in SeqsUpTo(BookmarkRows, MaxId) : NoDuplicateIds(l)} :
    LoadedPage(list, <<>>)

NextRealtime ==
  \/ \E p \in Payloads : EmitAny(p)
  \/ OnPostgresChanges

SpecRealtime == InitRealtime /\ [][NextRealtime]_vars

\* C1: an INSERT notification for an id that is not in the list puts the new
\* record at the head, an INSERT for an id already in the list leaves the
\* list as it was, and no id ever appears twice in the list.
C1_InsertOnceNoDuplicates ==
  /\ []NoDuplicateIds(bookmarks)
  /\ [][Handled /\ Head(channel).eventType = "INSERT" =>
          IF HasId(bookmarks, Head(channel).new.id)
            THEN bookmarks' = bookmarks
            ELSE /\ Len(bookmarks') = Len(bookmarks) + 1
                 /\ Head(bookmarks') = Head(channel).new
                 /\ Tail(bookmarks') = bookmarks]_vars

\* an INSERT for an id already in a full list was handled
C1_Witness ==
  /\ lastEvent = [eventType |-> "INSERT", known |-> TRUE]
  /\ Len(bookmarks) = MaxId

\* C2: an UPDATE notification keeps the length of the list and every entry
\* with another id at its position, puts the new record at the position of
\* the entry with its id, and changes nothing when no entry has that id.
C2_UpdateInPlace ==
  [][Handled /\ Head(channel).eventType = "UPDATE" =>
       /\ Len(bookmarks') = Len(bookmarks)
       /\ \A i \in 1..Len(bookmarks) :
            IF bookmarks[i].id = Head(channel).new.id
              THEN bookmarks'[i] = Head(channel).new
              ELSE bookmarks'[i] = bookmarks[i]
       /\ ~HasId(bookmarks, Head(channel).new.id) => bookmarks' = bookmarks]_vars

\* an UPDATE for an id that is not in a non-empty list was handled
C2_Witness ==
  /\ lastEvent = [eventType |-> "UPDATE", known |-> FALSE]
  /\ bookmarks # <<>>

\* C3: a DELETE notification removes the entry whose id is the old record's
\* id and keeps the others in order; without such an entry nothing changes.
C3_DeleteById ==
  [][Handled /\ Head(channel).eventType = "DELETE" =>
       IF HasId(bookmarks, Head(channel).old.id)
         THEN LET k == PositionOf(bookmarks, Head(channel).old.id)
              IN bookmarks' = SubSeq(bookmarks, 1, k - 1)
                                \o SubSeq(bookmarks, k + 1, Len(bookmarks))
         ELSE bookmarks' = bookmarks]_vars

\* a DELETE removed an entry of a full list
C3_Witness ==
  /\ lastEvent = [eventType |-> "DELETE", known |-> TRUE]
  /\ Len(bookmarks) = MaxId - 1

(***************************************************************************)
(* Page load, page.js:110-164                                              *)
(***************************************************************************)
\* the page as constructed, before init() has run, while the store holds rows
FreshPage(rows) ==
  /\ user = None
  /\ bookmarks = <<>>
  /\ title = Str_empty
  /\ url = Str_empty
  /\ editingId = NoId
  /\ showForm = FALSE
  /\ showWebSearch = FALSE
  /\ webResults = {}
  /\ isSearching = FALSE
  /\ fetchingMetadata = FALSE
  /\ metadataCache = <<>>
  /\ lastSaveTime = 0
  /\ initPc = "start"
  /\ subscribed = FALSE
  /\ lookups = <<>>
  /\ requests = <<>>
  /\ now = Now0
  /\ store = rows
  /\ nextId = Len(rows) + 1
  /\ queryResult = NoQueryResult
  /\ channel = <<>>
  /\ lastEvent = NoEvent
  /\ lastToast = None
  /\ outbound = <<>>
  /\ saves = 0
  /\ lastSubmit = NoSubmit
  /\ lastCreateAt = 0
  /\ lastAcceptAt = 0
  /\ calls = <<>>
  /\ ResolverIdle
  /\ lastAnswer = NoAnswer
  /\ FreshView(FALSE)
  /\ queriedFor = None
  /\ channelFor = None
  /\ loaded = "no"
  /\ SearchIdle

\* getUserSafe that takes the user of a refresh whatever it reported
getUserSafe_AnyRefresh(a) ==
  IF a.getUser = "user" THEN a.id
  ELSE IF a.getUser = "throws" THEN None
  ELSE IF a.refresh \in {"user", "error"} THEN a.id
  ELSE None

\* getUserSafe, page.js:57-74: the user of getUser(), else the user of
\* refreshSession() unless it reports an error, and null when either throws
getUserSafe(a) ==
  IF a.getUser = "user" THEN a.id
  ELSE IF a.getUser = "throws" THEN None
  ELSE IF a.refresh = "user" THEN a.id
  ELSE None

\* init(): getUserSafe() found the user; setUser, and the select is sent
InitSignedIn ==
  /\ initPc = "start"
  /\ getUserSafe(auth) # None
  /\ user' = getUserSafe(auth)
  /\ queriedFor' = getUserSafe(auth)
  /\ initPc' = "query"
  /\ UNCHANGED <<bookmarks, formVars, showWebSearch, webResults, isSearching,
                 fetchingMetadata, moduleVars, subscribed, lookups, requests,
                 envVars, obsVars, resolverVars, viewVars, auth, channelFor,
                 loaded, searchVars>>

\* init(): getUserSafe() returned null; toast and router.push("/login")
InitRedirect ==
  /\ initPc = "start"
  /\ getUserSafe(auth) = None
  /\ initPc' = "redirected"
  /\ lastToast' = "Session expired. Redirecting to login..."
  /\ UNCHANGED <<pageVars, moduleVars, subscribed, lookups, requests, envVars,
                 lastEvent, lookupObs, saveObs, resolverVars,
                 restVars>>

\* the store answers the select with the owner's rows, newest first, or with
\* an error and no data
StoreAnswerQuery ==
  /\ initPc = "query"
  /\ initPc' = "answered"
  /\ \/ queryResult' = [ok |-> TRUE, data |-> Reverse(store)]
     \/ queryResult' = [ok |-> FALSE, data |-> <<>>]
  /\ UNCHANGED <<pageVars, moduleVars, subscribed, lookups, requests, now,
                 store, nextId, channel, obsVars, resolverVars,
                 restVars>>

\* init(): setBookmarks(data || [])
InitSetBookmarks ==
  /\ initPc = "answered"
  /\ initPc' = "done"
  /\ bookmarks' = IF queryResult.ok THEN queryResult.data ELSE <<>>
  /\ queryResult' = NoQueryResult
  /\ loaded' = IF queryResult.ok THEN "ok" ELSE "failed"
  /\ UNCHANGED <<user, formVars, showWebSearch, webResults, isSearching,
                 fetchingMetadata, moduleVars, subscribed, lookups, requests,
                 now, store, nextId, channel, obsVars, resolverVars,
                 viewVars, auth, queriedFor, channelFor, searchVars>>

\* the effect on [user]: the channel for the user's rows is subscribed
Subscribe ==
  /\ user # None
  /\ ~subscribed
  /\ subscribed' = TRUE
  /\ channelFor' = user
  /\ UNCHANGED <<pageVars, moduleVars, initPc, lookups, requests, envVars,
                 obsVars, resolverVars, viewVars, auth, queriedFor, loaded,
                 searchVars>>

\* d milliseconds pass
Tick(d) ==
  /\ now + d <= Now0 + MaxElapsed
  /\ now' = now + d
  /\ UNCHANGED <<pageVars, moduleVars, asyncVars, store, nextId, queryResult,
                 channel, obsVars, resolverVars,
                 restVars>>

(***************************************************************************)
(* The form, page.js:166-184 and 276-307                                   *)
(***************************************************************************)
\* the page renders nothing until the user is set (page.js:335)
Rendered == user # None

Sent(u) == IF u \in DOMAIN outbound THEN outbound[u] ELSE 0

\* the result of the latest fetchPageMetadata call for u: "sent" while its
\* request is out, then "ok" or "failed"; "hit" when the cache served it;
\* "none" before the first call
LastCall(u) == IF u \in DOMAIN calls THEN calls[u].result ELSE "none"

\* a fetchPageMetadata call for u begins and goes the way result says
Called(u, result) ==
  MapSet(calls, u, [after |-> LastCall(u), result |-> result])

\* the request of a fetchPageMetadata call is answered; the answer is the
\* result of the latest call for the url when it is that call's request
Answered(lookup, result) ==
  IF calls[lookup.url].result = "sent" /\ lookup.seq = Sent(lookup.url)
    THEN MapSet(calls, lookup.url,
                [after |-> calls[lookup.url].after, result |-> result])
    ELSE calls

\* onChange of the title input
SetTitle(t) ==
  /\ Rendered
  /\ showForm
  /\ title' = t
  /\ UNCHANGED <<user, bookmarks, url, editingId, showForm, showWebSearch,
                 webResults, isSearching, fetchingMetadata, moduleVars,
                 asyncVars, envVars, obsVars, resolverVars,
                 restVars>>

\* the condition under which handleUrlChange looks the title up
WantsLookup(newUrl) ==
  newUrl # Str_empty /\ isValidUrl(newUrl) /\ editingId = NoId
    /\ title = Str_empty

\* handleUrlChange up to its await; a cache hit in fetchPageMetadata resumes
\* it before any other handler runs, a miss sends the request to /api/metadata
HandleUrlChange(newUrl) ==
  /\ Rendered
  /\ showForm
  /\ url' = newUrl
  /\ IF WantsLookup(newUrl)
       THEN IF newUrl \in DOMAIN metadataCache
              THEN /\ title' = IF metadataCache[newUrl].title # Str_empty
                                 THEN metadataCache[newUrl].title ELSE title
                   /\ fetchingMetadata' = FALSE
                   /\ calls' = Called(newUrl, "hit")
                   /\ UNCHANGED <<lookups, outbound>>
              ELSE /\ Len(lookups) < MaxLookups
                   /\ Sent(newUrl) < MaxOutbound
                   /\ fetchingMetadata' = TRUE
                   /\ lookups' = Append(lookups, [url |-> newUrl,
                                                 seq |-> Sent(newUrl) + 1])
                   /\ outbound' = MapSet(outbound, newUrl, Sent(newUrl) + 1)
                   /\ calls' = Called(newUrl, "sent")
                   /\ UNCHANGED title
       ELSE UNCHANGED <<title, fetchingMetadata, lookups, outbound, calls>>
  /\ UNCHANGED <<lastAnswer, user, bookmarks, editingId, showForm, showWebSearch,
                 webResults, isSearching, moduleVars, initPc, subscribed,
                 requests, envVars, lastEvent, lastToast, saveObs,
                 resolverVars,
                 restVars>>

\* LookupOk that returns the body without metadataCache.set
LookupOk_NoCache(i, t) ==
  /\ i \in 1..Len(lookups)
  /\ LET data == [title |-> t, url |-> lookups[i].url]
     IN title' = IF data.title # Str_empty THEN data.title ELSE title
  /\ lookups' = RemoveAt(lookups, i)
  /\ fetchingMetadata' = FALSE
  /\ calls' = Answered(lookups[i], "ok")
  /\ lastAnswer' = [url |-> lookups[i].url, ok |-> TRUE, title |-> t]
  /\ UNCHANGED <<user, bookmarks, url, editingId, showForm, showWebSearch,
                 webResults, isSearching, moduleVars, initPc, subscribed,
                 requests, envVars, lastEvent, lastToast, outbound, saveObs,
                 resolverVars,
                 restVars>>

\* LookupOk that sets the title only when the url field still holds the url
\* the lookup was sent for
LookupOk_IfCurrent(i, t) ==
  /\ i \in 1..Len(lookups)
  /\ LET data == [title |-> t, url |-> lookups[i].url]
     IN /\ metadataCache' = MapSet(metadataCache, lookups[i].url, data)
        /\ title' = IF data.title # Str_empty /\ data.url = url
                      THEN data.title ELSE title
  /\ lookups' = RemoveAt(lookups, i)
  /\ fetchingMetadata' = FALSE
  /\ calls' = Answered(lookups[i], "ok")
  /\ lastAnswer' = [url |-> lookups[i].url, ok |-> TRUE, title |-> t]
  /\ UNCHANGED <<user, bookmarks, url, editingId, showForm, showWebSearch,
                 webResults, isSearching, lastSaveTime, initPc, subscribed,
                 requests, envVars, lastEvent, lastToast, outbound, saveObs,
                 resolverVars,
                 restVars>>

\* lookup i is answered 200 with a body whose title is t: fetchPageMetadata
\* caches and returns the body, handleUrlChange sets the title when it has one
LookupOk(i, t) ==
  /\ i \in 1..Len(lookups)
  /\ LET data == [title |-> t, url |-> lookups[i].url]
     IN /\ metadataCache' = MapSet(metadataCache, lookups[i].url, data)
        /\ title' = IF data.title # Str_empty THEN data.title ELSE title
  /\ lookups' = RemoveAt(lookups, i)
  /\ fetchingMetadata' = FALSE
  /\ calls' = Answered(lookups[i], "ok")
  /\ lastAnswer' = [url |-> lookups[i].url, ok |-> TRUE, title |-> t]
  /\ UNCHANGED <<user, bookmarks, url, editingId, showForm, showWebSearch,
                 webResults, isSearching, lastSaveTime, initPc, subscribed,
                 requests, envVars, lastEvent, lastToast, outbound, saveObs,
                 resolverVars,
                 restVars>>

\* LookupFailed that drops the url's cache entry and clears the title
LookupFailed_Clears(i) ==
  /\ i \in 1..Len(lookups)
  /\ lookups' = RemoveAt(lookups, i)
  /\ fetchingMetadata' = FALSE
  /\ calls' = Answered(lookups[i], "failed")
  /\ lastAnswer' = [url |-> lookups[i].url, ok |-> FALSE, title |-> Str_empty]
  /\ metadataCache' = [u \in DOMAIN metadataCache \ {lookups[i].url} |->
                         metadataCache[u]]
  /\ title' = Str_empty
  /\ UNCHANGED <<user, bookmarks, url, editingId, showForm, showWebSearch,
                 webResults, isSearching, lastSaveTime, initPc, subscribed,
                 requests, envVars, lastEvent, lastToast, outbound, saveObs,
                 resolverVars,
                 restVars>>

\* lookup i is answered with a non-OK status, or fetch or response.json()
\* throws: fetchPageMetadata returns null
LookupFailed(i) ==
  /\ i \in 1..Len(lookups)
  /\ lookups' = RemoveAt(lookups, i)
  /\ fetchingMetadata' = FALSE
  /\ calls' = Answered(lookups[i], "failed")
  /\ lastAnswer' = [url |-> lookups[i].url, ok |-> FALSE, title |-> Str_empty]
  /\ UNCHANGED <<user, bookmarks, formVars, showWebSearch, webResults,
                 isSearching, moduleVars, initPc, subscribed, requests,
                 envVars, lastEvent, lastToast, outbound, saveObs,
                 resolverVars,
                 restVars>>

\* resetForm, as the Cancel button calls it
ResetForm ==
  /\ Rendered
  /\ showForm
  /\ editingId' = NoId
  /\ title' = Str_empty
  /\ url' = Str_empty
  /\ showForm' = FALSE
  /\ UNCHANGED <<user, bookmarks, showWebSearch, webResults, isSearching,
                 fetchingMetadata, moduleVars, asyncVars, envVars, obsVars,
                 resolverVars,
                 restVars>>

\* handleAddManuallyClick
HandleAddManuallyClick ==
  /\ Rendered
  /\ IF showForm
       THEN /\ editingId' = NoId
            /\ title' = Str_empty
            /\ url' = Str_empty
            /\ showForm' = FALSE
            /\ UNCHANGED showWebSearch
       ELSE /\ showForm' = TRUE
            /\ showWebSearch' = FALSE
            /\ UNCHANGED <<editingId, title, url>>
  /\ UNCHANGED <<user, bookmarks, webResults, isSearching, fetchingMetadata,
                 moduleVars, asyncVars, envVars, obsVars, resolverVars,
                 restVars>>

\* startEdit, from the Edit button of the i-th listed bookmark
StartEdit(i) ==
  /\ Rendered
  /\ i \in 1..Len(bookmarks)
  /\ editingId' = bookmarks[i].id
  /\ title' = bookmarks[i].title
  /\ url' = bookmarks[i].url
  /\ showForm' = TRUE
  /\ showWebSearch' = FALSE
  /\ UNCHANGED <<user, bookmarks, webResults, isSearching, fetchingMetadata,
                 moduleVars, asyncVars, envVars, obsVars, resolverVars,
                 restVars>>

(***************************************************************************)
(* Store calls: handleSave, addFromSearch, deleteBookmark, page.js:186-288 *)
(***************************************************************************)
\* how long before now the time t lies, t = 0 standing for never
Gap(t) ==
  IF t = 0 THEN "none" ELSE IF now - t < 1200 THEN "short" ELSE "long"

Submitted(outcome) ==
  [mode |-> IF editingId # NoId THEN "update" ELSE "create",
   outcome |-> outcome,
   createGap |-> Gap(lastCreateAt), saveGap |-> Gap(lastAcceptAt)]

\* TooFast with a window of one second
TooFast_OneSecond(t, last) == t - last < 1000

\* now - lastSaveTime < 1200
TooFast(t, last) == t - last < 1200

\* the store call handleSave issues, as it stands in requests
SaveRequest ==
  [from |-> "save", op |-> IF editingId # NoId THEN "update" ELSE "insert",
   id |-> editingId, title |-> title, url |-> url, shown |-> {},
   phase |-> "sent"]

\* handleSave up to its await
HandleSave ==
  /\ Rendered
  /\ showForm
  /\ saves < MaxSaves
  /\ saves' = saves + 1
  /\ IF Trim(title) = Str_empty \/ Trim(url) = Str_empty
       THEN /\ lastToast' = "Fill all fields"
            /\ lastSubmit' = Submitted("blank")
            /\ UNCHANGED <<lastSaveTime, requests, lastCreateAt, lastAcceptAt>>
     ELSE IF ~isValidUrl(url)
       THEN /\ lastToast' = "Invalid URL"
            /\ lastSubmit' = Submitted("invalid")
            /\ UNCHANGED <<lastSaveTime, requests, lastCreateAt, lastAcceptAt>>
     ELSE IF TooFast(now, lastSaveTime)
       THEN /\ lastToast' = "Too fast - slow down"
            /\ lastSubmit' = Submitted("too fast")
            /\ UNCHANGED <<lastSaveTime, requests, lastCreateAt, lastAcceptAt>>
     ELSE /\ Len(requests) < MaxInFlight
          /\ lastSaveTime' = now
          /\ requests' = Append(requests, SaveRequest)
          /\ lastSubmit' = Submitted("sent")
          /\ lastAcceptAt' = now
          /\ lastCreateAt' = IF editingId = NoId THEN now ELSE lastCreateAt
          /\ UNCHANGED lastToast
  /\ UNCHANGED <<pageVars, metadataCache, initPc, subscribed, lookups,
                 envVars, lastEvent, lookupObs, resolverVars,
                 restVars>>

\* HandleSaveResume that also puts the saved bookmark into the local list
HandleSaveResume_Optimistic(i) ==
  /\ i \in 1..Len(requests)
  /\ requests[i].from = "save"
  /\ requests[i].phase \in {"ok", "error"}
  /\ requests' = RemoveAt(requests, i)
  /\ IF requests[i].phase = "error"
       THEN /\ lastToast' = IF requests[i].op = "update"
                              THEN "Update failed" ELSE "Add failed"
            /\ UNCHANGED <<formVars, bookmarks>>
       ELSE /\ lastToast' = IF requests[i].op = "update"
                              THEN "Updated!" ELSE "Added!"
            /\ bookmarks' = <<[id |-> requests[i].id, title |-> requests[i].title,
                               url |-> requests[i].url]>> \o bookmarks
            /\ editingId' = NoId
            /\ title' = Str_empty
            /\ url' = Str_empty
            /\ showForm' = FALSE
  /\ UNCHANGED <<user, showWebSearch, webResults, isSearching,
                 fetchingMetadata, moduleVars, initPc, subscribed, lookups,
                 envVars, lastEvent, lookupObs, saveObs, resolverVars,
                 restVars>>

\* HandleSaveResume that resets the form whatever the store answered
HandleSaveResume_ResetAlways(i) ==
  /\ i \in 1..Len(requests)
  /\ requests[i].from = "save"
  /\ requests[i].phase \in {"ok", "error"}
  /\ requests' = RemoveAt(requests, i)
  /\ lastToast' = IF requests[i].phase = "error"
                    THEN IF requests[i].op = "update"
                           THEN "Update failed" ELSE "Add failed"
                    ELSE IF requests[i].op = "update"
                           THEN "Updated!" ELSE "Added!"
  /\ editingId' = NoId
  /\ title' = Str_empty
  /\ url' = Str_empty
  /\ showForm' = FALSE
  /\ UNCHANGED <<user, bookmarks, showWebSearch, webResults, isSearching,
                 fetchingMetadata, moduleVars, initPc, subscribed, lookups,
                 envVars, lastEvent, lookupObs, saveObs, resolverVars,
                 restVars>>

\* handleSave after its await, for call i: a toast, and resetForm when the
\* store accepted
HandleSaveResume(i) ==
  /\ i \in 1..Len(requests)
  /\ requests[i].from = "save"
  /\ requests[i].phase \in {"ok", "error"}
  /\ requests' = RemoveAt(requests, i)
  /\ IF requests[i].phase = "error"
       THEN /\ lastToast' = IF requests[i].op = "update"
                              THEN "Update failed" ELSE "Add failed"
            /\ UNCHANGED formVars
       ELSE /\ lastToast' = IF requests[i].op = "update"
                              THEN "Updated!" ELSE "Added!"
            /\ editingId' = NoId
            /\ title' = Str_empty
            /\ url' = Str_empty
            /\ showForm' = FALSE
  /\ UNCHANGED <<user, bookmarks, showWebSearch, webResults, isSearching,
                 fetchingMetadata, moduleVars, initPc, subscribed, lookups,
                 envVars, lastEvent, lookupObs, saveObs, resolverVars,
                 restVars>>

\* handleSearchWebClick
HandleSearchWebClick ==
  /\ Rendered
  /\ showWebSearch' = ~showWebSearch
  /\ showForm' = FALSE
  /\ webResults' = {}
  /\ UNCHANGED <<user, bookmarks, title, url, editingId, isSearching,
                 fetchingMetadata, moduleVars, asyncVars, envVars, obsVars,
                 resolverVars,
                 restVars>>

\* handleWebSearch up to its await, with a search term entered
HandleWebSearch ==
  /\ Rendered
  /\ showWebSearch
  /\ ~isSearching
  /\ isSearching' = TRUE
  /\ webResults' = {}
  /\ UNCHANGED <<user, bookmarks, formVars, showWebSearch, fetchingMetadata,
                 moduleVars, asyncVars, envVars, obsVars, resolverVars,
                 restVars>>

\* handleWebSearch after its await: /api/search answered with the results
\* found, none on a failure
WebSearchResume(found) ==
  /\ isSearching
  /\ isSearching' = FALSE
  /\ webResults' = found
  /\ lastToast' = IF found # {} THEN "Found results" ELSE "No results found"
  /\ UNCHANGED <<user, bookmarks, formVars, showWebSearch, fetchingMetadata,
                 moduleVars, asyncVars, envVars, lastEvent, lookupObs,
                 saveObs, resolverVars,
                 restVars>>

\* addFromSearch up to its await, from the Add button of a shown result
AddFromSearch(result) ==
  /\ Rendered
  /\ showWebSearch
  /\ result \in webResults
  /\ Len(requests) < MaxInFlight
  /\ requests' = Append(requests,
       [from |-> "search", op |-> "insert", id |-> NoId,
        title |-> result.title, url |-> result.url,
        shown |-> webResults, phase |-> "sent"])
  /\ UNCHANGED <<pageVars, moduleVars, initPc, subscribed, lookups, envVars,
                 obsVars, resolverVars,
                 restVars>>

\* addFromSearch after its await, for call i; the filter is applied to the
\* results the call saw when it started
AddFromSearchResume(i) ==
  /\ i \in 1..Len(requests)
  /\ requests[i].from = "search"
  /\ requests[i].phase \in {"ok", "error"}
  /\ requests' = RemoveAt(requests, i)
  /\ IF requests[i].phase = "error"
       THEN /\ lastToast' = "Failed to add bookmark"
            /\ UNCHANGED webResults
       ELSE /\ lastToast' = "Bookmark added!"
            /\ webResults' = {r \in requests[i].shown : r.url # requests[i].url}
  /\ UNCHANGED <<user, bookmarks, formVars, showWebSearch, isSearching,
                 fetchingMetadata, moduleVars, initPc, subscribed, lookups,
                 envVars, lastEvent, lookupObs, saveObs, resolverVars,
                 restVars>>

\* deleteBookmark up to its await, from the Delete button of the i-th
\* listed bookmark
DeleteBookmark(i) ==
  /\ Rendered
  /\ i \in 1..Len(bookmarks)
  /\ Len(requests) < MaxInFlight
  /\ requests' = Append(requests,
       [from |-> "delete", op |-> "delete", id |-> bookmarks[i].id,
        title |-> Str_empty, url |-> Str_empty, shown |-> {},
        phase |-> "sent"])
  /\ UNCHANGED <<pageVars, moduleVars, initPc, subscribed, lookups, envVars,
                 obsVars, resolverVars,
                 restVars>>

\* deleteBookmark after its await, for call i
DeleteBookmarkResume(i) ==
  /\ i \in 1..Len(requests)
  /\ requests[i].from = "delete"
  /\ requests[i].phase \in {"ok", "error"}
  /\ requests' = RemoveAt(requests, i)
  /\ lastToast' = IF requests[i].phase = "error"
                    THEN "Delete failed" ELSE "Deleted"
  /\ UNCHANGED <<pageVars, moduleVars, initPc, subscribed, lookups, envVars,
                 lastEvent, lookupObs, saveObs, resolverVars,
                 restVars>>

(***************************************************************************)
(* The external store, as far as the page observes it                      *)
(***************************************************************************)
\* the notification for a change, delivered only to an open channel
Notify(payload) ==
  IF subscribed THEN Append(channel, payload) ELSE channel

\* the store rejects call i and changes nothing
StoreReject(i) ==
  /\ i \in 1..Len(requests)
  /\ requests[i].phase = "sent"
  /\ requests' = [requests EXCEPT ![i].phase = "error"]
  /\ UNCHANGED <<pageVars, moduleVars, initPc, subscribed, lookups, envVars,
                 obsVars, resolverVars,
                 restVars>>

\* the store carries out call i and emits the change
StoreApply(i) ==
  /\ i \in 1..Len(requests)
  /\ requests[i].phase = "sent"
  /\ Len(channel) < MaxBacklog
  /\ requests' = [requests EXCEPT ![i].phase = "ok"]
  /\ LET r == requests[i]
         row == [id |-> IF r.op = "insert" THEN nextId ELSE r.id,
                 title |-> r.title, url |-> r.url]
     IN IF r.op = "insert"
          THEN /\ nextId <= MaxRows
               /\ store' = Append(store, row)
               /\ nextId' = nextId + 1
               /\ channel' = Notify([eventType |-> "INSERT", new |-> row,
                                     old |-> EmptyRecord])
        ELSE IF ~HasId(store, r.id)
          THEN UNCHANGED <<store, nextId, channel>>
        ELSE IF r.op = "update"
          THEN /\ store' = [store EXCEPT ![PositionOf(store, r.id)] = row]
               /\ channel' = Notify([eventType |-> "UPDATE", new |-> row,
                                     old |-> EmptyRecord])
               /\ UNCHANGED nextId
        ELSE /\ store' = RemoveAt(store, PositionOf(store, r.id))
             /\ channel' = Notify([eventType |-> "DELETE",
                                   new |-> EmptyRecord, old |-> [id |-> r.id]])
             /\ UNCHANGED nextId
  /\ UNCHANGED <<pageVars, moduleVars, initPc, subscribed, lookups, now,
                 queryResult, obsVars, resolverVars,
                 restVars>>

(***************************************************************************)
(* The page with its store: every handler that calls the store             *)
(***************************************************************************)
Row1 == [id |-> 1, title |-> Str_a, url |-> Str_http_a]
SearchResults == {[title |-> Str_M, url |-> Str_http_a]}

\* the loaded page showing the store's one row, after the user opened the
\* form and typed a title and then a URL
Init ==
  /\ user = Owner
  /\ bookmarks = <<Row1>>
  /\ title = Str_a
  /\ url = Str_http_a
  /\ editingId = NoId
  /\ showForm = TRUE
  /\ showWebSearch = FALSE
  /\ webResults = {}
  /\ isSearching = FALSE
  /\ fetchingMetadata = FALSE
  /\ metadataCache = <<>>
  /\ lastSaveTime = 0
  /\ initPc = "done"
  /\ subscribed = TRUE
  /\ lookups = <<>>
  /\ requests = <<>>
  /\ now = Now0
  /\ store = <<Row1>>
  /\ nextId = 2
  /\ queryResult = NoQueryResult
  /\ channel = <<>>
  /\ lastEvent = NoEvent
  /\ lastToast = None
  /\ outbound = <<>>
  /\ saves = 0
  /\ lastSubmit = NoSubmit
  /\ lastCreateAt = 0
  /\ lastAcceptAt = 0
  /\ calls = <<>>
  /\ ResolverIdle
  /\ lastAnswer = NoAnswer
  /\ FreshView(TRUE)
  /\ auth = SignedIn(Owner)
  /\ queriedFor = Owner
  /\ channelFor = Owner
  /\ loaded = "ok"
  /\ SearchIdle

Next ==
  \/ HandleAddManuallyClick
  \/ \E i \in 1..MaxRows : StartEdit(i)
  \/ HandleSave
  \/ \E i \in 1..MaxInFlight : HandleSaveResume(i)
  \/ HandleSearchWebClick
  \/ HandleWebSearch
  \/ \E found \in SUBSET SearchResults : WebSearchResume(found)
  \/ \E result \in SearchResults : AddFromSearch(result)
  \/ \E i \in 1..MaxInFlight : AddFromSearchResume(i)
  \/ \E i \in 1..MaxRows : DeleteBookmark(i)
  \/ \E i \in 1..MaxInFlight : DeleteBookmarkResume(i)
  \/ \E i \in 1..MaxInFlight : StoreReject(i)
  \/ \E i \in 1..MaxInFlight : StoreApply(i)
  \/ OnPostgresChanges

Spec == Init /\ [][Next]_vars

\* C4: handleSave, addFromSearch and deleteBookmark leave the local list as
\* it is, before and after their store call and whatever its outcome; once
\* the page is loaded the list changes only in the step that handles a
\* realtime notification.
C4_ListChangesOnlyByNotification ==
  [][bookmarks' # bookmarks => Handled]_vars

\* the store accepted an insert sent by handleSave and handleSave resumed,
\* while the list still waits for the notification
C4_Witness ==
  /\ lastToast = "Added!"
  /\ Len(store) = 2
  /\ Len(bookmarks) = 1
  /\ Len(channel) = 1

(***************************************************************************)
(* The save guard: handleSave against the clock                            *)
(***************************************************************************)
\* the loaded page showing the store's one row; /api/metadata does not
\* answer within the time the clock runs
InitGuard == LoadedPage(<<Row1>>, <<Row1>>)

NextGuard ==
  \/ Tick(500)
  \/ Tick(699)
  \/ Tick(700)
  \/ HandleAddManuallyClick
  \/ SetTitle(Str_a)
  \/ HandleUrlChange(Str_http_a)
  \/ \E i \in 1..MaxRows : StartEdit(i)
  \/ HandleSave
  \/ \E i \in 1..MaxInFlight : HandleSaveResume(i)
  \/ \E i \in 1..MaxInFlight : StoreReject(i)
  \/ \E i \in 1..MaxInFlight : StoreApply(i)
  \/ OnPostgresChanges

SpecGuard == InitGuard /\ [][NextGuard]_vars

\* the last handleSave call was a create that reached the guard
GuardedCreate ==
  lastSubmit.mode = "create" /\ lastSubmit.outcome \in {"too fast", "sent"}

\* the step is a handleSave call
SaveCall == saves' = saves + 1

\* the step issues a store call for the form
IssuesSave ==
  /\ Len(requests') = Len(requests) + 1
  /\ requests'[Len(requests')].from = "save"

\* the guard turns the rejected call away for good: no store call, no
\* change of lastSaveTime, and store calls for the form are issued by
\* handleSave calls that pass the guard and by nothing else
RejectedForGood ==
  /\ SaveCall /\ lastSubmit'.outcome = "too fast" =>
       requests' = requests /\ lastSaveTime' = lastSaveTime
  /\ IssuesSave => SaveCall /\ lastSubmit'.outcome = "sent"

\* C5 as claimed: a create that reaches the guard is rejected if the
\* previous create the guard let pass was less than 1200 ms earlier, and
\* passes if that create was at least 1200 ms earlier.
C5_Claimed ==
  GuardedCreate =>
    /\ lastSubmit.createGap = "short" => lastSubmit.outcome = "too fast"
    /\ lastSubmit.createGap = "long" => lastSubmit.outcome = "sent"

\* C5, amended: a create that reaches the guard is rejected, with no store
\* call issued then or later for it, if and only if the previous save the
\* guard let pass, create or update, was less than 1200 ms earlier.
C5_GuardOnLastSave ==
  /\ [](GuardedCreate =>
          (lastSubmit.outcome = "too fast" <=> lastSubmit.saveGap = "short"))
  /\ [][RejectedForGood]_vars

\* a create was rejected 500 ms after an update passed the guard, the
\* previous create being 1200 ms or more in the past
C5_Witness ==
  lastSubmit = [mode |-> "create", outcome |-> "too fast",
                createGap |-> "long", saveGap |-> "short"]

(***************************************************************************)
(* The metadata route handlers: GET of part_001 (app/api/metadata/route.js)*)
(* and of app/api/Metadata/route.js                                        *)
(***************************************************************************)
Str_http_slashes == <<"h", "t", "t", "p", ":", "/", "/">>
Str_https_slashes == <<"h", "t", "t", "p", "s", ":", "/", "/">>
Str_www_dot == <<"w", "w", "w", ".">>

DropPrefix(s, prefix) == SubSeq(s, Len(prefix) + 1, Len(s))

\* url.replace(/^https?:\/\/(www\.)?/, ''): the pattern is case-sensitive and
\* anchored at the first character of the parameter as given
StripSchemeAndWww(u) ==
  LET scheme == IF StartsWith(u, Str_https_slashes) THEN Str_https_slashes
                ELSE IF StartsWith(u, Str_http_slashes) THEN Str_http_slashes
                ELSE Str_empty
      rest == DropPrefix(u, scheme)
  IN IF scheme = Str_empty THEN u
     ELSE IF StartsWith(rest, Str_www_dot) THEN DropPrefix(rest, Str_www_dot)
     ELSE rest

\* .split('/')[0]
UpToFirstSlash(s) ==
  LET slash == IndexOf(s, "/")
  IN IF slash = 0 THEN s ELSE SubSeq(s, 1, slash - 1)

\* the title derived from the url parameter
HostnameFallback(u) == UpToFirstSlash(StripSchemeAndWww(u))

\* s.replace(/pattern/g, replacement) for a literal pattern
RECURSIVE ReplaceAll(_, _, _)
ReplaceAll(s, pattern, replacement) ==
  IF s = <<>> THEN <<>>
  ELSE IF StartsWith(s, pattern)
    THEN replacement \o ReplaceAll(DropPrefix(s, pattern), pattern, replacement)
  ELSE <<Head(s)>> \o ReplaceAll(Tail(s), pattern, replacement)

Ent_amp == <<"&", "a", "m", "p", ";">>
Ent_lt == <<"&", "l", "t", ";">>
Ent_gt == <<"&", "g", "t", ";">>
Ent_quot == <<"&", "q", "u", "o", "t", ";">>
Ent_apos == <<"&", "#", "0", "3", "9", ";">>
Ent_nbsp == <<"&", "n", "b", "s", "p", ";">>

\* part_001:80-87, the replacements one after the other, then trim
DecodeEntities(s) ==
  LET amp == ReplaceAll(s, Ent_amp, <<"&">>)
      lt == ReplaceAll(amp, Ent_lt, <<"<">>)
      gt == ReplaceAll(lt, Ent_gt, <<">">>)
      quot == ReplaceAll(gt, Ent_quot, <<"\"">>)
      apos == ReplaceAll(quot, Ent_apos, <<"'">>)
      nbsp == ReplaceAll(apos, Ent_nbsp, <<" ">>)
  IN Trim(nbsp)

\* the character references the HTML parser behind cheerio.load resolves,
\* each in one pass over the source text
EntityTable ==
  {[entity |-> Ent_amp, char |-> "&"], [entity |-> Ent_lt, char |-> "<"],
   [entity |-> Ent_gt, char |-> ">"], [entity |-> Ent_quot, char |-> "\""],
   [entity |-> Ent_apos, char |-> "'"], [entity |-> Ent_nbsp, char |-> NBSP]}

RECURSIVE ParserDecode(_)
ParserDecode(s) ==
  IF s = <<>> THEN <<>>
  ELSE IF \E e \in EntityTable : StartsWith(s, e.entity)
    THEN LET e == CHOOSE x \in EntityTable : StartsWith(s, x.entity)
         IN <<e.char>> \o ParserDecode(DropPrefix(s, e.entity))
  ELSE <<Head(s)>> \o ParserDecode(Tail(s))

\* html.match(...)[1] of part_001:57,64,72, '' when there is no match; the
\* group ([^"']+) or ([^<]+) needs one character at least
Captured(tag) == IF tag.found THEN tag.content ELSE Str_empty

\* part_001:54-88
ExtractTitle(h) ==
  LET og == Captured(h.og)
      tw == Captured(h.tw)
      first == IF og # Str_empty THEN og
               ELSE IF tw # Str_empty THEN tw
               ELSE Captured(h.title)
  IN IF first # Str_empty THEN DecodeEntities(first) ELSE first

\* part_001:91-98
TitleOrFallback(u, h) ==
  LET extracted == ExtractTitle(h)
      t == IF extracted = Str_empty THEN HostnameFallback(u) ELSE extracted
  IN IF t = Str_empty THEN Str_Untitled ELSE t

\* $(selector).attr('content') and $('title').text(): falsy when the
\* element is missing or its text is empty
Attr(tag) == IF tag.found THEN ParserDecode(tag.content) ELSE Str_empty

\* Metadata/route.js:36-40 and 54
CheerioTitle(u, h) ==
  LET og == Attr(h.og)
      tw == Attr(h.tw)
      text == Attr(h.title)
  IN Trim(IF og # Str_empty THEN og
          ELSE IF tw # Str_empty THEN tw
          ELSE IF text # Str_empty THEN text
          ELSE u)

\* the request carries a url parameter that new URL() accepts
ValidRequest(req) == req.given /\ req.url # Str_empty /\ UrlParses(req.url)

\* the 400 of the two checks: part_001 adds the title 'Untitled' to the body
BadRequest(r) ==
  Response(400, IF r = RouteFallback THEN Str_Untitled ELSE Str_empty, FALSE)

\* Get that calls fetch before it looks at the parameter
Get_FetchFirst(r, req) ==
  /\ resolverPc # "fetching"
  /\ route' = r
  /\ request' = req
  /\ target' = "none"
  /\ html' = NoHtml
  /\ resolverPc' = "fetching"
  /\ fetches' = 1
  /\ response' = NoResponse
  /\ UNCHANGED <<pageVars, moduleVars, asyncVars, envVars, obsVars, restVars>>

\* GET of route r is called with request req and runs up to its await of
\* fetch, or to the 400 it returns before; requests are served one by one
Get(r, req) ==
  /\ resolverPc # "fetching"
  /\ route' = r
  /\ request' = req
  /\ target' = "none"
  /\ html' = NoHtml
  /\ IF ~req.given \/ req.url = Str_empty
       THEN /\ response' = BadRequest(r)
            /\ resolverPc' = "done"
            /\ fetches' = 0
     ELSE IF ~UrlParses(req.url)
       THEN /\ response' = BadRequest(r)
            /\ resolverPc' = "done"
            /\ fetches' = 0
     ELSE /\ response' = NoResponse
          /\ resolverPc' = "fetching"
          /\ fetches' = 1
  /\ UNCHANGED <<pageVars, moduleVars, asyncVars, envVars, obsVars, restVars>>

\* the target answers with an OK status and the body h
TargetOk(h) ==
  /\ resolverPc = "fetching"
  /\ resolverPc' = "done"
  /\ target' = "ok"
  /\ html' = h
  /\ response' =
       IF route = RouteFallback
         THEN Response(200, TitleOrFallback(request.url, h), FALSE)
         ELSE Response(200, CheerioTitle(request.url, h), FALSE)
  /\ UNCHANGED <<route, request, fetches, pageVars, moduleVars, asyncVars,
                 envVars, obsVars, restVars>>

\* the target answers with a status outside 200..299
TargetNotOk(status) ==
  /\ resolverPc = "fetching"
  /\ resolverPc' = "done"
  /\ target' = "not ok"
  /\ response' =
       IF route = RouteFallback
         THEN Response(200, HostnameFallback(request.url), FALSE)
         ELSE Response(status, Str_empty, FALSE)
  /\ UNCHANGED <<route, request, fetches, html, pageVars, moduleVars,
                 asyncVars, envVars, obsVars, restVars>>

\* the target does not answer in time: the signal aborts fetch, with an
\* AbortError in part_001, caught at line 105, and with a TimeoutError in
\* Metadata/route.js, caught at line 59
TargetTimeout ==
  /\ resolverPc = "fetching"
  /\ resolverPc' = "done"
  /\ target' = "timeout"
  /\ response' =
       IF route = RouteFallback
         THEN Response(200, HostnameFallback(request.url), FALSE)
         ELSE Response(500, Str_empty, FALSE)
  /\ UNCHANGED <<route, request, fetches, html, pageVars, moduleVars,
                 asyncVars, envVars, obsVars, restVars>>

\* fetch rejects for another reason (DNS, connection), or reading the body
\* fails: part_001 rethrows to its outer catch, where the url is non-empty
TargetFails ==
  /\ resolverPc = "fetching"
  /\ resolverPc' = "done"
  /\ target' = "error"
  /\ response' =
       IF route = RouteFallback
         THEN Response(200, HostnameFallback(request.url), TRUE)
         ELSE Response(500, Str_empty, FALSE)
  /\ UNCHANGED <<route, request, fetches, html, pageVars, moduleVars,
                 asyncVars, envVars, obsVars, restVars>>

RequestUrls ==
  {Str_http_a, Str_https_www_a_p, Str_https_www, Str_sp_http_a,
   Str_a, Str_http_only, Str_empty}
Requests == {NoRequest} \cup [given : {TRUE}, url : RequestUrls]

TagContents ==
  {Str_O, Str_T, Str_D, Str_space, Str_empty, Ent_amp, Ent_nbsp}
Tags == {NoTag} \cup {Tag(c) : c \in TagContents}
Htmls == [og : Tags, tw : Tags, title : Tags]
NotOkStatuses == {404, 503}

InitResolver == LoadedPage(<<>>, <<>>)

NextResolver ==
  \/ \E r \in Routes, req \in Requests : Get(r, req)
  \/ \E h \in Htmls : TargetOk(h)
  \/ \E status \in NotOkStatuses : TargetNotOk(status)
  \/ TargetTimeout
  \/ TargetFails

SpecResolver == InitResolver /\ [][NextResolver]_vars

\* GET has returned for the current request
Returned == resolverPc = "done"

\* C6 as claimed: for every request whose url parameter is a valid URL, and
\* whatever the target did, GET returns status 200 with a non-empty title.
C6_Claimed ==
  Returned /\ ValidRequest(request) =>
    response.status = 200 /\ response.title # Str_empty

\* C7: a request whose url parameter is missing, empty or not a valid URL is
\* answered 400, and GET starts no fetch for it: a fetch is started only in
\* a step that takes up a valid request.
C7_InvalidRejectedWithoutFetch ==
  /\ [](resolverPc # "idle" /\ ~ValidRequest(request) =>
          Returned /\ response.status = 400 /\ fetches = 0 /\ target = "none")
  /\ [][resolverPc' = "fetching" /\ resolverPc # "fetching" =>
          ValidRequest(request')]_vars

\* Metadata/route.js has answered 400 to a url parameter that is given and
\* is not a URL, without a fetch
C7_Witness ==
  /\ Returned
  /\ route = RouteCheerio
  /\ request = [given |-> TRUE, url |-> Str_a]
  /\ response.status = 400
  /\ fetches = 0

\* the first of the Open-Graph title, the Twitter title and the title
\* element that the page has with a non-empty value
HasValue(tag) == tag.found /\ tag.content # Str_empty
FirstValue(h) ==
  IF HasValue(h.og) THEN h.og.content
  ELSE IF HasValue(h.tw) THEN h.tw.content
  ELSE IF HasValue(h.title) THEN h.title.content
  ELSE Str_empty

\* a value as the route that served the request presents it
Presented(s) ==
  IF route = RouteFallback THEN DecodeEntities(s) ELSE Trim(ParserDecode(s))

\* C8 as claimed: after an OK answer of the target the title is the first
\* of Open-Graph title, Twitter title and title element that the page has,
\* and the hostname-derived fallback when it has none.  Values that are
\* blank once decoded and trimmed, and an empty fallback, are left open.
C8_Claimed ==
  Returned /\ target = "ok" =>
    /\ response.status = 200
    /\ FirstValue(html) # Str_empty /\ Presented(FirstValue(html)) # Str_empty =>
         response.title = Presented(FirstValue(html))
    /\ FirstValue(html) = Str_empty /\ HostnameFallback(request.url) # Str_empty =>
         response.title = HostnameFallback(request.url)

\* C9 as claimed: when the target timed out or answered with a non-success
\* status, part_001 returns the hostname-derived fallback title and the
\* body carries the warning.
C9_Claimed ==
  Returned /\ route = RouteFallback /\ target \in {"timeout", "not ok"} =>
    /\ response.status = 200
    /\ response.title = HostnameFallback(request.url)
    /\ response.warning

(***************************************************************************)
(* The title lookup: handleUrlChange, fetchPageMetadata and the cache      *)
(***************************************************************************)
AssistUrls == {Str_http_a, Str_https_www_a_p, Str_a, Str_empty}
AssistTitles == {Str_empty, Str_a}
MetadataTitles == {Str_M, Str_T, Str_empty}

\* the loaded page showing the store's one row
InitAssist == LoadedPage(<<Row1>>, <<Row1>>)

NextAssist ==
  \/ HandleAddManuallyClick
  \/ \E t \in AssistTitles : SetTitle(t)
  \/ \E u \in AssistUrls : HandleUrlChange(u)
  \/ \E i \in 1..MaxLookups, t \in MetadataTitles : LookupOk(i, t)
  \/ \E i \in 1..MaxLookups : LookupFailed(i)
  \/ \E i \in 1..MaxRows : StartEdit(i)
  \/ ResetForm

SpecAssist == InitAssist /\ [][NextAssist]_vars

\* C10 as claimed: a fetchPageMetadata call that follows a completed call
\* for the same url which had sent a request is served from the cache, so
\* that the two send one request.
C10_Claimed ==
  \A u \in DOMAIN calls :
    calls[u].after \in {"ok", "failed"} => calls[u].result = "hit"

\* a request goes out only from a call that misses the cache, one at a time
SentOnMissOnly ==
  \A u \in DOMAIN outbound' :
    outbound'[u] # Sent(u) =>
      /\ outbound'[u] = Sent(u) + 1
      /\ u \notin DOMAIN metadataCache
      /\ calls'[u].result = "sent"

\* C10, amended: the first fetchPageMetadata call for a url sends one
\* request; when that request, or any later one, was answered OK, the url is
\* cached for good and every call that follows is served from the cache and
\* sends nothing.
C10_OneRequestAfterOk ==
  /\ [](\A u \in DOMAIN calls :
          /\ calls[u].after = "none" => calls[u].result # "hit" /\ Sent(u) = 1
          /\ calls[u].after \in {"ok", "hit"} => calls[u].result = "hit"
          /\ calls[u].result \in {"ok", "hit"} => u \in DOMAIN metadataCache)
  /\ [][SentOnMissOnly]_vars

\* a call was answered OK and the next call for the same url was served from
\* the cache: one request was sent for the two
C10_Witness ==
  /\ Str_http_a \in DOMAIN calls
  /\ calls[Str_http_a] = [after |-> "ok", result |-> "hit"]
  /\ Sent(Str_http_a) = 1

(***************************************************************************)
(* The list view: search, debounce, filter and pagination,                 *)
(* page.js:42-54, 100, 322-332, 400-403 and 604-611                        *)
(***************************************************************************)
\* String.prototype.toLowerCase, for the letters the titles and terms use
LowerChar(c) ==
  IF c = "A" THEN "a" ELSE IF c = "B" THEN "b" ELSE IF c = "M" THEN "m" ELSE c
ToLowerCase(s) == [i \in 1..Len(s) |-> LowerChar(s[i])]

\* s.includes(sub)
Includes(s, sub) ==
  \E k \in 0..(Len(s) - Len(sub)) : SubSeq(s, k + 1, k + Len(sub)) = sub

\* Filter that also looks into the url
Filter_TitleOrUrl(list, term) ==
  SelectSeq(list, LAMBDA b :
    \/ Includes(ToLowerCase(b.title), ToLowerCase(term))
    \/ Includes(ToLowerCase(b.url), ToLowerCase(term)))

\* bookmarks.filter(b => b.title.toLowerCase().includes(term.toLowerCase()))
Filter(list, term) ==
  SelectSeq(list, LAMBDA b :
    Includes(ToLowerCase(b.title), ToLowerCase(term)))

\* s.slice(0, n)
Slice(s, n) == SubSeq(s, 1, IF n < Len(s) THEN n ELSE Len(s))

filtered == Filter(bookmarks, debouncedSearch)
paginated == Slice(filtered, page * PAGE_SIZE)

\* the Load More button is rendered
LoadMoreShown == Len(paginated) < Len(filtered)

\* SetSearch whose effect leaves the pending timeout in place
SetSearch_KeepTimers(v) ==
  /\ Rendered
  /\ v # search
  /\ search' = v
  /\ page' = 1
  /\ debounceTimers' =
       debounceTimers \cup {[value |-> v, due |-> now + DebounceDelay]}
  /\ lastTyped' = now
  /\ UNCHANGED <<debouncedSearch, pageVars, moduleVars, asyncVars, envVars,
                 obsVars, resolverVars, authVars, searchVars>>

\* onChange of the search input with the new value v, and the effect of
\* useDebounce that follows the render: the cleanup clears the pending
\* timeout, then a new one is set
SetSearch(v) ==
  /\ Rendered
  /\ v # search
  /\ search' = v
  /\ page' = 1
  /\ debounceTimers' = {[value |-> v, due |-> now + DebounceDelay]}
  /\ lastTyped' = now
  /\ UNCHANGED <<debouncedSearch, pageVars, moduleVars, asyncVars, envVars,
                 obsVars, resolverVars, authVars, searchVars>>

\* the timeout t of useDebounce runs, at its due time or later
DebounceFire(t) ==
  /\ t \in debounceTimers
  /\ t.due <= now
  /\ debouncedSearch' = t.value
  /\ debounceTimers' = debounceTimers \ {t}
  /\ UNCHANGED <<search, page, lastTyped, pageVars, moduleVars, asyncVars,
                 envVars, obsVars, resolverVars, authVars, searchVars>>

\* LoadMore that does not depend on the button being rendered
LoadMore_Always ==
  /\ Rendered
  /\ page' = page + 1
  /\ UNCHANGED <<search, debouncedSearch, debounceTimers, lastTyped, pageVars,
                 moduleVars, asyncVars, envVars, obsVars, resolverVars,
                 authVars, searchVars>>

\* onClick of Load More
LoadMore ==
  /\ Rendered
  /\ LoadMoreShown
  /\ page' = page + 1
  /\ UNCHANGED <<search, debouncedSearch, debounceTimers, lastTyped, pageVars,
                 moduleVars, asyncVars, envVars, obsVars, resolverVars,
                 authVars, searchVars>>

\* n rows whose titles are a, Ab, M in turn, all with the url http://a
BrowseTitles == <<Str_a, Str_Ab, Str_M>>
BrowseList(n) ==
  [i \in 1..n |-> [id |-> i, title |-> BrowseTitles[(i % 3) + 1],
                   url |-> Str_http_a]]
BrowseSizes == {0, 7, 13}
SearchTerms == {Str_empty, Str_a, <<"A">>, <<"B">>, Str_M, Str_Ab}

\* the loaded page with a list of 0, 7 or 13 bookmarks
InitBrowse ==
  \E n \in BrowseSizes : LoadedPage(BrowseList(n), Reverse(BrowseList(n)))

NextBrowse ==
  \/ \E v \in SearchTerms : SetSearch(v)
  \/ \E t \in debounceTimers : DebounceFire(t)
  \/ LoadMore
  \/ Tick(150)
  \/ Tick(300)

SpecBrowse == InitBrowse /\ [][NextBrowse]_vars

\* C11 as claimed: whenever the term applied to the list changes, the view
\* is on page 1 before and after the change.
C11_Claimed ==
  [][debouncedSearch' # debouncedSearch => page = 1 /\ page' = 1]_vars

\* C12: the visible list is the first page x 6 items of the filtered list,
\* or all of it when it is shorter, in list order; page changes only by a
\* reset to 1 or by a Load More click, which adds exactly one and is
\* possible only while some filtered item is not shown.
C12_FirstPagesShown ==
  /\ [](/\ page >= 1
        /\ Len(paginated) =
             IF page * PAGE_SIZE < Len(filtered)
               THEN page * PAGE_SIZE ELSE Len(filtered)
        /\ \A i \in 1..Len(paginated) : paginated[i] = filtered[i])
  /\ [][page' # page =>
          \/ page' = 1 /\ search' # search
          \/ page' = page + 1 /\ Len(paginated) < Len(filtered)]_vars

\* Load More has been clicked twice and all 13 bookmarks are shown, so
\* that the button is gone
C12_Witness ==
  /\ page = 3
  /\ Len(filtered) = 13
  /\ Len(paginated) = 13
  /\ ~LoadMoreShown

\* C13: the term applied to the list changes only to the raw input as it
\* stands, and only when the raw input has not changed for 300 ms; every
\* change of the raw input replaces the pending timeout by one for the new
\* value, so that at most one timeout is pending and it carries the raw
\* input.
C13_DebouncedAfterQuiet ==
  /\ [](\A t \in debounceTimers : debounceTimers = {t} /\ t.value = search)
  /\ [][debouncedSearch' # debouncedSearch =>
          /\ debouncedSearch' = search
          /\ search' = search
          /\ now - lastTyped >= DebounceDelay]_vars
  /\ [][search' # search =>
          /\ debounceTimers' = {[value |-> search', due |-> now + DebounceDelay]}
          /\ debouncedSearch' = debouncedSearch]_vars

\* the raw input changed 150 ms or more after page load, and the applied
\* term has followed it once the input was quiet
C13_Witness ==
  /\ lastTyped >= Now0 + 150
  /\ search = Str_Ab
  /\ debouncedSearch = Str_Ab
  /\ debounceTimers = {}

\* the title of b contains the term, letter case set aside
MatchesTitle(b, term) ==
  \E k \in 0..(Len(b.title) - Len(term)) :
    \A j \in 1..Len(term) : LowerChar(b.title[k + j]) = LowerChar(term[j])

\* the position in the local list of the k-th bookmark whose title matches
NthMatch(k) ==
  CHOOSE i \in 1..Len(bookmarks) :
    /\ MatchesTitle(bookmarks[i], debouncedSearch)
    /\ Cardinality({j \in 1..i :
                      MatchesTitle(bookmarks[j], debouncedSearch)}) = k

\* C14: the filtered list holds exactly the bookmarks whose title contains
\* the applied term, letter case set aside, in the order of the local list;
\* the url plays no part, and the empty term keeps every bookmark.
C14_FilterByTitle ==
  /\ Len(filtered) =
       Cardinality({i \in 1..Len(bookmarks) :
                      MatchesTitle(bookmarks[i], debouncedSearch)})
  /\ \A k \in 1..Len(filtered) : filtered[k] = bookmarks[NthMatch(k)]
  /\ debouncedSearch = Str_empty => filtered = bookmarks

\* the term A is applied: bookmarks titled a and Ab are kept, those titled
\* M are dropped although their url http://a contains the term
C14_Witness ==
  /\ debouncedSearch = <<"A">>
  /\ Len(bookmarks) = 7
  /\ Len(filtered) = 5
  /\ \E i \in 1..Len(bookmarks) :
       /\ bookmarks[i].title = Str_M
       /\ Includes(ToLowerCase(bookmarks[i].url), ToLowerCase(debouncedSearch))
       /\ \A k \in 1..Len(filtered) : filtered[k] # bookmarks[i]

(***************************************************************************)
(* The title lookup and the form while a lookup is in flight               *)
(***************************************************************************)
\* C15 as claimed: handleUrlChange sends a lookup only for a valid new url
\* in create mode with the title empty, and the answer of a lookup changes
\* the title only when the title is still empty and no bookmark is being
\* edited at the time the answer arrives.
C15_Claimed ==
  [][/\ Len(lookups') > Len(lookups) => WantsLookup(url')
     /\ Len(lookups') < Len(lookups) /\ title' # title =>
          title = Str_empty /\ editingId = NoId]_vars

(***************************************************************************)
(* Store calls the store rejects                                           *)
(***************************************************************************)
\* the toast the handler of a rejected call shows
FailureToast(r) ==
  IF r.from = "search" THEN "Failed to add bookmark"
  ELSE IF r.from = "delete" THEN "Delete failed"
  ELSE IF r.op = "update" THEN "Update failed" ELSE "Add failed"

\* the step resumes the handler of call i
Resumed(i) ==
  /\ requests[i].phase \in {"ok", "error"}
  /\ Len(requests') < Len(requests)
  /\ requests' = RemoveAt(requests, i)

\* C16: the store changes nothing when it rejects a call; the handler that
\* resumes on the rejection shows its failure toast, sends no call again and
\* leaves the list alone, and handleSave leaves the form's fields and the
\* edit mode as they are; a step that takes a call off resets the form only
\* when it resumes handleSave on an accepted call.
C16_RejectionOnlyReported ==
  [][/\ \A i \in 1..Len(requests) :
          /\ Len(requests') = Len(requests)
               /\ requests[i].phase = "sent" /\ requests'[i].phase = "error" =>
               UNCHANGED <<store, nextId, channel, bookmarks, formVars>>
          /\ Resumed(i) /\ requests[i].phase = "error" =>
               /\ lastToast' = FailureToast(requests[i])
               /\ UNCHANGED <<bookmarks, store, channel, saves, formVars>>
          /\ Resumed(i) /\ requests[i].phase = "ok"
               /\ requests[i].from = "save" =>
               /\ editingId' = NoId /\ title' = Str_empty
               /\ url' = Str_empty /\ showForm' = FALSE
     /\ Len(requests') < Len(requests) /\ formVars' # formVars =>
          \E i \in 1..Len(requests) :
            Resumed(i) /\ requests[i].phase = "ok" /\ requests[i].from = "save"
     /\ Len(requests') <= Len(requests) + 1]_vars

\* the store rejected the update of the bookmark being edited and handleSave
\* resumed: the form still shows the edit
C16_Witness ==
  /\ lastToast = "Update failed"
  /\ requests = <<>>
  /\ editingId = 1
  /\ showForm
  /\ title = Str_a
  /\ url = Str_http_a
  /\ store = <<Row1>>
  /\ bookmarks = <<Row1>>

(***************************************************************************)
(* The search route, api/search/route.js                                   *)
(***************************************************************************)
\* .slice(0, 10) of the Google path
ResultCap == 10

\* the first n items of a provider's answer, each mapped to a result
Items(n) == [k \in 1..n |-> k]

\* which of SERP_API_KEY, GOOGLE_SEARCH_API_KEY and GOOGLE_SEARCH_ENGINE_ID
\* the environment sets
SearchEnvs == [serp : BOOLEAN, googleKey : BOOLEAN, googleId : BOOLEAN]

\* searchParams.get('q'): absent, or the value
Queries ==
  {NoQuery} \cup {[given |-> TRUE, q |-> v] : v \in {Str_empty, Str_a, Str_M, Str_Ab}}

\* the number of items a provider answers with
ProviderCounts == {0, 1, 9, 10, 11, 12}

\* !query
QueryMissing(qr) == ~qr.given \/ qr.q = Str_empty

\* the mock results, with the warning
MockResponse == SearchResponse(200, MockResults, TRUE)

\* the route goes on to the Google path when both of its variables are set,
\* and to the mock results otherwise
AfterSerp(env) ==
  IF env.googleKey /\ env.googleId
    THEN /\ searchPc' = "google"
         /\ contacted' = contacted \cup {"google"}
         /\ UNCHANGED searchResponse
    ELSE /\ searchPc' = "done"
         /\ searchResponse' = MockResponse
         /\ UNCHANGED contacted

\* GET up to its first await, or to its response when it awaits nothing
SearchGet(env, qr) ==
  /\ searchPc = "idle"
  /\ searchEnv' = env
  /\ query' = qr
  /\ IF QueryMissing(qr)
       THEN /\ searchPc' = "done"
            /\ searchResponse' = SearchResponse(400, <<>>, FALSE)
            /\ UNCHANGED contacted
     ELSE IF env.serp
       THEN /\ searchPc' = "serp"
            /\ contacted' = contacted \cup {"serp"}
            /\ UNCHANGED searchResponse
     ELSE AfterSerp(env)
  /\ UNCHANGED <<pageVars, moduleVars, asyncVars, envVars, obsVars,
                 resolverVars, viewVars, authVars>>

\* SerpAPI answers OK with n organic results: every one is mapped and returned
SerpAnswers(n) ==
  /\ searchPc = "serp"
  /\ searchPc' = "done"
  /\ searchResponse' = SearchResponse(200, Items(n), FALSE)
  /\ UNCHANGED <<pageVars, moduleVars, asyncVars, envVars, obsVars,
                 resolverVars, viewVars, authVars, searchEnv, query, contacted>>

\* SerpAPI answers with a non-OK status, or the fetch or the body throws
SerpFails ==
  /\ searchPc = "serp"
  /\ AfterSerp(searchEnv)
  /\ UNCHANGED <<pageVars, moduleVars, asyncVars, envVars, obsVars,
                 resolverVars, viewVars, authVars, searchEnv, query>>

\* Google Custom Search answers OK with n items
GoogleAnswers(n) ==
  /\ searchPc = "google"
  /\ searchPc' = "done"
  /\ searchResponse' = SearchResponse(200, Slice(Items(n), ResultCap), FALSE)
  /\ UNCHANGED <<pageVars, moduleVars, asyncVars, envVars, obsVars,
                 resolverVars, viewVars, authVars, searchEnv, query, contacted>>

\* Google Custom Search answers with a non-OK status, or the fetch or the
\* body throws: the mock results
GoogleFails ==
  /\ searchPc = "google"
  /\ searchPc' = "done"
  /\ searchResponse' = MockResponse
  /\ UNCHANGED <<pageVars, moduleVars, asyncVars, envVars, obsVars,
                 resolverVars, viewVars, authVars, searchEnv, query, contacted>>

InitSearch == LoadedPage(<<>>, <<>>)

NextSearch ==
  \/ \E env \in SearchEnvs, qr \in Queries : SearchGet(env, qr)
  \/ \E n \in ProviderCounts : SerpAnswers(n)
  \/ SerpFails
  \/ \E n \in ProviderCounts : GoogleAnswers(n)
  \/ GoogleFails

SpecSearch == InitSearch /\ [][NextSearch]_vars

\* C17 as claimed: the response to a request with a non-empty q carries at
\* most 10 results whichever path produced it, and a request without q is
\* answered 400 with no results and no provider contacted.
C17_Claimed ==
  searchPc = "done" =>
    IF QueryMissing(query)
      THEN /\ searchResponse.status = 400
           /\ searchResponse.results = <<>>
           /\ contacted = {}
      ELSE Len(searchResponse.results) <= 10

(***************************************************************************)
(* The page load: getUserSafe, init() and the realtime effect,             *)
(* page.js:57-74 and 110-164                                               *)
(***************************************************************************)
\* the realtime service delivers a notification over the open channel
ChannelEmit(p) == subscribed /\ EmitAny(p)

LoadRows == {<<>>, <<Row1>>}

\* the notifications about the row the store may hold
LoadPayloads == {p \in Payloads : SubjectId(p) = Row1.id}

\* the page mounts, whatever the session is
InitLoad ==
  /\ \E rows \in LoadRows : FreshPage(rows)
  /\ auth \in AuthStates

NextLoad ==
  \/ InitSignedIn
  \/ InitRedirect
  \/ StoreAnswerQuery
  \/ InitSetBookmarks
  \/ Subscribe
  \/ \E p \in LoadPayloads : ChannelEmit(p)
  \/ OnPostgresChanges

SpecLoad == InitLoad /\ [][NextLoad]_vars

\* the user the session yields: the one getUser returns, else the one the
\* refresh returns without an error; none when either call throws
SessionUser ==
  IF auth.getUser = "user"
       \/ (auth.getUser = "none" /\ auth.refresh = "user")
    THEN auth.id ELSE None

\* C18: with no user from getUser and none from the refresh the page only
\* redirects: the user is never set, no bookmarks are queried or listed and
\* no channel is opened; otherwise the user set is the session's, and the
\* bookmarks query and the channel are for that user's id.
C18_OnlyTheSessionUser ==
  /\ SessionUser = None =>
       /\ user = None
       /\ bookmarks = <<>>
       /\ ~subscribed
       /\ channel = <<>>
       /\ queriedFor = None
       /\ channelFor = None
       /\ initPc \in {"start", "redirected"}
  /\ user \in {None, SessionUser}
  /\ initPc # "redirected" \/ SessionUser = None
  /\ IF initPc \in {"query", "answered", "done"}
       THEN user # None /\ queriedFor = user
       ELSE queriedFor = None /\ bookmarks = <<>>
  /\ IF subscribed
       THEN user # None /\ channelFor = user
       ELSE channelFor = None /\ channel = <<>>

\* getUser returned no user, the refresh reported an error, and the page
\* redirected
C18_Witness ==
  /\ auth.getUser = "none"
  /\ auth.refresh = "error"
  /\ initPc = "redirected"
  /\ lastToast = "Session expired. Redirecting to login..."
  /\ store = <<Row1>>

(***************************************************************************)
(* Overlapping lookups                                                     *)
(***************************************************************************)
\* the step takes lookup i off with its answer
AnswerTo(i) ==
  /\ Len(lookups') < Len(lookups)
  /\ lookups' = RemoveAt(lookups, i)
  /\ lastAnswer'.url = lookups[i].url

\* C19: a change of the url field takes no lookup off, a lookup leaves only
\* with its answer, and an answer that carries a title sets the title field
\* whatever the url field holds by then.
C19_AnswerAppliedWhateverTheUrl ==
  [][/\ url' # url =>
          /\ Len(lookups') >= Len(lookups)
          /\ SubSeq(lookups', 1, Len(lookups)) = lookups
     /\ Len(lookups') < Len(lookups) =>
          /\ \E i \in 1..Len(lookups) : AnswerTo(i)
          /\ lastAnswer'.ok /\ lastAnswer'.title # Str_empty =>
               title' = lastAnswer'.title]_vars

\* two lookups overlapped; the one for the url the field no longer holds was
\* answered last, and the title field shows its title, not the title cached
\* for the url in the field
C19_Witness ==
  /\ lookups = <<>>
  /\ url = Str_https_www_a_p
  /\ lastAnswer = [url |-> Str_http_a, ok |-> TRUE, title |-> Str_M]
  /\ title = Str_M
  /\ url \in DOMAIN metadataCache
  /\ metadataCache[url].title = Str_T
  /\ Sent(Str_http_a) = 1
  /\ Sent(url) = 1

(***************************************************************************)
(* The cache over the session                                              *)
(***************************************************************************)
\* the step is the failed answer of a lookup
FailedAnswer == Len(lookups') < Len(lookups) /\ ~lastAnswer'.ok

\* the number of requests sent for u after the step
SentAfter(u) == IF u \in DOMAIN outbound' THEN outbound'[u] ELSE 0

\* C20 as claimed: a failed answer adds nothing to the cache and leaves the
\* title; an entry of the cache is never removed and never replaced, and no
\* request is sent for its url again.
C20_Claimed ==
  [][/\ FailedAnswer => metadataCache' = metadataCache /\ title' = title
     /\ \A u \in DOMAIN metadataCache :
          /\ u \in DOMAIN metadataCache'
          /\ metadataCache'[u] = metadataCache[u]
          /\ SentAfter(u) = Sent(u)]_vars

\* C20, amended: a failed answer adds nothing to the cache and leaves the
\* title; an entry of the cache is never removed and no request is sent for
\* its url again; the entry is replaced only by the body of an OK answer to
\* a request for the same url that was already in flight.
C20_EntryKeptOrRefreshed ==
  [][/\ FailedAnswer => metadataCache' = metadataCache /\ title' = title
     /\ \A u \in DOMAIN metadataCache :
          /\ u \in DOMAIN metadataCache'
          /\ SentAfter(u) = Sent(u)
          /\ metadataCache'[u] # metadataCache[u] =>
               \E i \in 1..Len(lookups) :
                 /\ AnswerTo(i)
                 /\ lookups[i].url = u
                 /\ lastAnswer'.ok
                 /\ metadataCache'[u] = [title |-> lastAnswer'.title,
                                          url |-> u]]_vars

\* the second of two requests for a url failed after the first had been
\* answered OK: the entry and the title are those of the first
C20_Witness ==
  /\ lookups = <<>>
  /\ Sent(Str_http_a) = 2
  /\ lastAnswer = [url |-> Str_http_a, ok |-> FALSE, title |-> Str_empty]
  /\ Str_http_a \in DOMAIN metadataCache
  /\ metadataCache[Str_http_a].title = Str_M
  /\ title = Str_M

(***************************************************************************)
(* The fetchingMetadata indicator, page.js:97 and 170-175                  *)
(***************************************************************************)
\* C24 as claimed: fetchingMetadata is true exactly while a lookup that
\* handleUrlChange started is still in flight, also when lookups overlap.
C24_Claimed ==
  fetchingMetadata <=> lookups # <<>>

(***************************************************************************)
(* The load against a store that other sessions of the owner change,       *)
(* page.js:110-164                                                         *)
(***************************************************************************)
\* the ids of the rows of a list
IdsOf(list) == {list[i].id : i \in 1..Len(list)}

\* another session of the owner inserts a bookmark: the store numbers its
\* rows in creation order and notifies the open channel
OtherInsert(t) ==
  /\ nextId <= MaxId
  /\ Len(channel) < MaxChannel
  /\ LET row == [id |-> nextId, title |-> t, url |-> Str_http_a]
     IN /\ store' = Append(store, row)
        /\ channel' = Notify([eventType |-> "INSERT", new |-> row,
                              old |-> EmptyRecord])
  /\ nextId' = nextId + 1
  /\ UNCHANGED <<pageVars, moduleVars, initPc, subscribed, lookups, requests,
                 now, queryResult, obsVars, resolverVars, restVars>>

\* another session of the owner retitles the i-th row of the store
OtherUpdate(i, t) ==
  /\ i \in 1..Len(store)
  /\ store[i].title # t
  /\ Len(channel) < MaxChannel
  /\ LET row == [store[i] EXCEPT !.title = t]
     IN /\ store' = [store EXCEPT ![i] = row]
        /\ channel' = Notify([eventType |-> "UPDATE", new |-> row,
                              old |-> EmptyRecord])
  /\ UNCHANGED <<pageVars, moduleVars, initPc, subscribed, lookups, requests,
                 now, nextId, queryResult, obsVars, resolverVars, restVars>>

\* another session of the owner deletes the i-th row of the store
OtherDelete(i) ==
  /\ i \in 1..Len(store)
  /\ Len(channel) < MaxChannel
  /\ store' = RemoveAt(store, i)
  /\ channel' = Notify([eventType |-> "DELETE", new |-> EmptyRecord,
                        old |-> [id |-> store[i].id]])
  /\ UNCHANGED <<pageVars, moduleVars, initPc, subscribed, lookups, requests,
                 now, nextId, queryResult, obsVars, resolverVars, restVars>>

\* the owner's page mounts with the session valid
InitSync ==
  /\ \E rows \in LoadRows : FreshPage(rows)
  /\ auth = SignedIn(Owner)

NextSync ==
  \/ InitSignedIn
  \/ StoreAnswerQuery
  \/ InitSetBookmarks
  \/ Subscribe
  \/ \E t \in RowTitles : OtherInsert(t)
  \/ \E i \in 1..MaxId, t \in RowTitles : OtherUpdate(i, t)
  \/ \E i \in 1..MaxId : OtherDelete(i)
  \/ OnPostgresChanges

SpecSync == InitSync /\ [][NextSync]_vars

\* C21 as claimed: once init() has set the data of a query that succeeded
\* and the open channel has nothing left to deliver, the ids of the list are
\* the ids of the owner's rows in the store.
C21_Claimed ==
  loaded = "ok" /\ initPc = "done" /\ subscribed /\ channel = <<>> =>
    IdsOf(bookmarks) = IdsOf(store)

\* the ids of a list, in its order
IdSeq(list) == [i \in 1..Len(list) |-> list[i].id]

\* newest first: the store numbers its rows in creation order
Descending(list) ==
  \A i, j \in 1..Len(list) : i < j => list[i].id > list[j].id

C22_Claimed ==
  [][Len(requests') > Len(requests)
       /\ requests'[Len(requests')].op = "insert" =>
       LET r == requests'[Len(requests')]
       IN /\ Trim(r.title) # Str_empty
          /\ Trim(r.url) # Str_empty
          /\ isValidUrl(r.url)
          /\ ~TooFast(now, lastSaveTime)]_vars

====
